---- MODULE Spec2Model ----
(***************************************************************************)
(* Model of server/handlers/component_handler.go: the import handler       *)
(* RegisterMeshmodels (four upload adapters, registration, aggregate       *)
(* report) and the export handler ExportModel.                             *)
(*                                                                         *)
(* Spec       : one RegisterMeshmodels request, step by step.              *)
(* SpecExport : one ExportModel request, step by step.                     *)
(***************************************************************************)
EXTENDS Integers, Sequences, FiniteSets, TLC

VARIABLES
    \* ---- RegisterMeshmodels ----
    req,            \* the decoded ImportRequest and the shape of its payload
    pc,             \* position of the handler
    tmp,            \* temporary files / directories present on the filesystem
    created,        \* every temporary file / directory the request ever created
    open,           \* open file handles
    defers,         \* deferred calls registered so far (run at return)
    modelDirPaths,  \* result of GetModelDirectoryPaths (csv adapter)
    idx,            \* loop index of the csv registration loop
    registerCalls,  \* every registrationHelper.Register call, with its outcome
    responses,      \* what was written to the http.ResponseWriter, in order
    events,         \* audit events sent, in order
    cacheCopied,    \* tempDir was copied into the registry-local cache
    errored,        \* an adapter step reported an unrecoverable error
    afterErr,       \* what the handler did after such an error was reported
    mdl,            \* model.Model of the url adapter
    urlUsed,        \* the model name each step of the url adapter was given
    response,       \* models.RegistryAPIResponse (the shared aggregator)
    mu,             \* holder of the sync.Mutex (0 = unlocked)
    wpc,            \* position of each aggregation worker
    wlocal,         \* each worker's private copy of the counts it updates
    \* ---- ExportModel ----
    xreq,           \* query parameters of the export request
    xpc,            \* position of the handler
    xquery,         \* how the registry answered GetEntities
    xmodel,         \* the model pulled from the registry (e[0])
    xcomps,         \* local slice components
    xrels,          \* local slice relationships
    xi,             \* loop index (directories, components, relationships)
    xfs,            \* files and directories present under the temporary root
    xmade,          \* everything the request ever created under the root
    xdefer,         \* defer os.RemoveAll(modelDir) has been registered
    xart,           \* the packaged artifact (the tree it was built from)
    xresp,          \* status, headers and body written to the ResponseWriter
    \* ---- UpdateEntityStatus / RegisterMeshmodelComponents ----
    hreq,           \* the request: which handler, and how each call it makes answers
    hpc,            \* position of the handler
    herr,           \* the handler's local err
    hcalls,         \* calls made to the registry manager, in order
    hevents,        \* events persisted (provider.PersistEvent), by severity
    hresp,          \* status codes written to the ResponseWriter, in order
    pub,            \* the goroutine started by `go ...Publish(...)`
    \* ---- requests in flight at the same time, on one filesystem ----
    creq,           \* the request each of them serves
    cpc,            \* position of each handler
    cfs,            \* the filesystem: what exists, and whose write it holds
    cuse,           \* the temporary paths each request in flight is using
    cdir,           \* the path each request registers or packages
    cgot,           \* the files each request's registration or packaging read
    cout,           \* what each export answered and whose archive it read back
    clost,          \* a path a request was using was removed by another
    \* ---- RegisterEntity ----
    ereq,           \* content, entity type, and how the registry will answer
    epc,            \* position in the function
    ecalls,         \* calls made to the registry manager, in order
    eret,           \* the error the function returned
    \* ---- listing handlers (models, categories, components, registrants) ----
    lreq,           \* which listing, and the page and limit of getPaginationParams
    lpc,            \* position of the handler
    lentities,      \* the entities the registry returned
    lcount,         \* the count the registry returned
    litems,         \* the entities kept for the response
    lres            \* the answer: status and the encoded listing

ivars == <<req, pc, tmp, created, open, defers, modelDirPaths, idx,
           registerCalls, responses, events, cacheCopied, errored, afterErr,
           mdl, urlUsed, response, mu, wpc, wlocal>>
xvars == <<xreq, xpc, xquery, xmodel, xcomps, xrels, xi, xfs, xmade, xdefer, xart, xresp>>
hvars == <<hreq, hpc, herr, hcalls, hevents, hresp, pub>>
cvars == <<creq, cpc, cfs, cuse, cdir, cgot, cout, clost>>
evars == <<ereq, epc, ecalls, eret>>
lvars == <<lreq, lpc, lentities, lcount, litems, lres>>
vars == <<ivars, xvars, hvars, cvars, evars, lvars>>
\* What an action of one handler leaves alone: the state of the others.
otherThanImport == <<xvars, hvars, cvars, evars, lvars>>
otherThanExport == <<ivars, hvars, cvars, evars, lvars>>
otherThanHandlers == <<ivars, xvars, cvars, evars, lvars>>
otherThanConcurrent == <<ivars, xvars, hvars, evars, lvars>>
otherThanRegisterEntity == <<ivars, xvars, hvars, cvars, lvars>>
otherThanListing == <<ivars, xvars, hvars, cvars, evars>>

\* Largest number of model directories one csv import discovers.
MaxDirs == 3
\* Largest number of components / relationships of an exported model.
MaxComps == 2
MaxRels == 1
\* Longest model name of a url import.
MaxNameLen == 2
\* Number of names os.CreateTemp / os.MkdirTemp can choose from, per pattern.
MaxTemp == 2
\* Largest limit asked for, largest count and longest page the registry returns.
MaxLimit == 2
MaxCount == 3
MaxEntities == 2

Range(s) == {s[i] : i \in 1..Len(s)}

(***************************************************************************)
(* RegisterMeshmodels                                                      *)
(***************************************************************************)

\* A data-URL of the csv adapter: well formed, wrong prefix, or right prefix
\* with a body that is not base64.
DataURLs == {"ok", "badprefix", "badbase64"}

\* Character codes of the model names tried: 'A', 'a', 'b'.
Chars == {65, 97, 98}
ModelNames == UNION {[1..n -> Chars] : n \in 1..MaxNameLen}

\* What http.Get and io.ReadAll can yield.
Downloads == {"neterr", "200", "204", "404", "readerr"}

ImportRequests ==
    [bodyOk : {FALSE}, uploadType : {"csv"}, register : {FALSE},
     modelCsv : {"ok"}, componentCsv : {"ok"}, relationshipCsv : {"ok"},
     modelFile : {"ok"}, model : {<<>>}, download : {"none"}]
    \cup
    [bodyOk : {TRUE}, uploadType : {"csv"}, register : BOOLEAN,
     modelCsv : DataURLs, componentCsv : DataURLs, relationshipCsv : DataURLs,
     modelFile : {"ok"}, model : {<<>>}, download : {"none"}]
    \cup
    [bodyOk : {TRUE}, uploadType : {"other"}, register : BOOLEAN,
     modelCsv : {"ok"}, componentCsv : {"ok"}, relationshipCsv : {"ok"},
     modelFile : {"ok"}, model : {<<>>}, download : {"none"}]
    \cup
    [bodyOk : {TRUE}, uploadType : {"url"}, register : BOOLEAN,
     modelCsv : {"ok"}, componentCsv : {"ok"}, relationshipCsv : {"ok"},
     modelFile : {"ok"}, model : ModelNames, download : {"none"}]
    \cup
    [bodyOk : {TRUE}, uploadType : {"urlImport"}, register : BOOLEAN,
     modelCsv : {"ok"}, componentCsv : {"ok"}, relationshipCsv : {"ok"},
     modelFile : {"ok"}, model : {<<>>}, download : Downloads]
    \cup
    [bodyOk : {TRUE}, uploadType : {"file"}, register : BOOLEAN,
     modelCsv : {"ok"}, componentCsv : {"ok"}, relationshipCsv : {"ok"},
     modelFile : {"ok", "badbase64"}, model : {<<>>}, download : {"none"}]

NoCounts == [total |-> 0, err |-> 0]

ErrorResponse(status, cause) ==
    [kind |-> "error", status |-> status, cause |-> cause,
     total |-> 0, err |-> 0, errMsg |-> FALSE]

\* fetchBase64DataFromDataURL: the prefix is checked first, then the body is
\* decoded.
fetchBase64DataFromDataURL(dataURL) ==
    CASE dataURL = "badprefix" -> "ErrFileType"
      [] dataURL = "badbase64" -> "ErrBase64"
      [] OTHER -> "nil"

\* What the deferred calls do when the handler returns.
AfterDefers(files) ==
    files \ {d.target : d \in {e \in Range(defers) : e.op \in {"Remove", "RemoveAll"}}}
AfterClose(handles) ==
    handles \ {d.target : d \in {e \in Range(defers) : e.op = "Close"}}

\* The handler returns from the current state of tmp / open.
Return ==
    /\ pc' = "done"
    /\ tmp' = AfterDefers(tmp)
    /\ open' = AfterClose(open)
    /\ UNCHANGED <<created, defers>>

\* Bookkeeping: what the handler does once an unrecoverable error was reported.
Track(kind) ==
    afterErr' = IF errored THEN afterErr \cup {kind} ELSE afterErr

\* h.handleError(rw, err, msg) followed by h.sendErrorEvent(...).
ReportError(cause) ==
    /\ responses' = Append(responses, ErrorResponse("handleError", cause))
    /\ events' = Append(events, "error")
    /\ errored' = TRUE

\* handleError; sendErrorEvent; return
FailWith(cause) ==
    /\ ReportError(cause)
    /\ Return

Goto(l) ==
    /\ pc' = l
    /\ UNCHANGED <<tmp, created, open, defers>>

\* A Go slice held in an interface field: nil, or the items.
Nil == [nil |-> TRUE, items |-> <<>>]
Slice(items) == [nil |-> FALSE, items |-> items]

NoModel == [name |-> "", components |-> Nil, relationships |-> Nil]
NoResponse ==
    [status |-> "none", contentType |-> "", filename |-> [base |-> "", ext |-> ""],
     message |-> <<>>, body |-> {}, delivered |-> FALSE]

InitExportIdle ==
    /\ xreq = [id |-> "", name |-> "", version |-> "", output_format |-> "",
               file_type |-> "", components |-> "", relationships |-> ""]
    /\ xpc = "idle"
    /\ xquery = "none"
    /\ xmodel = NoModel
    /\ xcomps = <<>>
    /\ xrels = <<>>
    /\ xi = 0
    /\ xfs = {}
    /\ xmade = {}
    /\ xdefer = FALSE
    /\ xart = {}
    /\ xresp = NoResponse

NoHandlerRequest ==
    [handler |-> "", bodyOk |-> FALSE, entityType |-> "", entityOk |-> FALSE,
     registryOk |-> FALSE, logsOk |-> FALSE]

InitHandlersIdle ==
    /\ hreq = NoHandlerRequest
    /\ hpc = "idle"
    /\ herr = "nil"
    /\ hcalls = <<>>
    /\ hevents = <<>>
    /\ hresp = <<>>
    /\ pub = "none"

\* The requests served at the same time.
Slots == {1, 2}

Root(kind, key) == [kind |-> kind, key |-> key]
NoRoot == Root("", <<>>)
NoConcRequest == [handler |-> "", uploadType |-> "", name |-> <<>>]
NoOutcome == [status |-> "none", tarBy |-> 0]

InitConcurrentIdle ==
    /\ creq = [p \in Slots |-> NoConcRequest]
    /\ cpc = [p \in Slots |-> "idle"]
    /\ cfs = {}
    /\ cuse = [p \in Slots |-> {}]
    /\ cdir = [p \in Slots |-> NoRoot]
    /\ cgot = [p \in Slots |-> {}]
    /\ cout = [p \in Slots |-> NoOutcome]
    /\ clost = [p \in Slots |-> FALSE]

NoEntityRequest ==
    [entityType |-> "", contentOk |-> FALSE,
     registry |-> [err |-> FALSE, isModelError |-> FALSE, isRegistrantError |-> FALSE]]

InitRegisterEntityIdle ==
    /\ ereq = NoEntityRequest
    /\ epc = "idle"
    /\ ecalls = <<>>
    /\ eret = "none"

NoListingRequest == [handler |-> "", page |-> 0, limit |-> 0]
NoListing == [status |-> 0, page |-> 0, pageSize |-> 0, count |-> 0, items |-> <<>>]

InitListingIdle ==
    /\ lreq = NoListingRequest
    /\ lpc = "idle"
    /\ lentities = <<>>
    /\ lcount = 0
    /\ litems = <<>>
    /\ lres = NoListing

\* No step of the url adapter has been given a name yet.
NotUsed == [generate |-> <<>>, path |-> <<>>, file |-> <<>>, identity |-> <<>>]

InitImportIdle ==
    /\ pc = "idle"
    /\ tmp = {}
    /\ created = {}
    /\ open = {}
    /\ defers = <<>>
    /\ modelDirPaths = <<>>
    /\ idx = 1
    /\ registerCalls = <<>>
    /\ responses = <<>>
    /\ events = <<>>
    /\ cacheCopied = FALSE
    /\ errored = FALSE
    /\ afterErr = {}
    /\ mdl = <<>>
    /\ urlUsed = NotUsed
    /\ response = NoCounts
    /\ mu = 0
    /\ wpc = [w \in 1..MaxDirs |-> "idle"]
    /\ wlocal = [w \in 1..MaxDirs |-> NoCounts]

Init ==
    /\ req \in ImportRequests
    /\ InitImportIdle
    /\ InitExportIdle
    /\ InitHandlersIdle
    /\ InitConcurrentIdle
    /\ InitRegisterEntityIdle
    /\ InitListingIdle

agg == <<response, mu, wpc, wlocal>>
url == <<mdl, urlUsed>>
reg == <<modelDirPaths, idx, registerCalls>>
out == <<responses, events, errored>>

\* json.NewDecoder(r.Body).Decode(&importRequest), then the switch on UploadType.
DecodeBody ==
    /\ pc = "idle"
    /\ Track("decode")
    /\ IF ~req.bodyOk
       THEN /\ events' = Append(events, "error")
            /\ responses' = Append(responses, ErrorResponse("400", "ErrDecodeBody"))
            /\ Return
            /\ UNCHANGED errored
       ELSE /\ Goto(CASE req.uploadType = "csv" -> "csv_set_logger"
                      [] req.uploadType = "url" -> "url_generate_models"
                      [] req.uploadType = "file" -> "file_marshal"
                      [] req.uploadType = "urlImport" -> "urlimport_download"
                      [] OTHER -> "tail")
            /\ UNCHANGED out
    /\ UNCHANGED <<req, url, reg, cacheCopied, agg, otherThanImport>>

\* ---- case "csv" ----

\* meshkitRegistryUtils.SetLogger(false): on error the handler reports it and
\* goes on (there is no return in this branch).
CsvSetLogger ==
    /\ pc = "csv_set_logger"
    /\ Track("adapterStep")
    /\ \/ ReportError("ErrSetLogger")
       \/ UNCHANGED out
    /\ Goto("csv_fetch_model")
    /\ UNCHANGED <<req, url, reg, cacheCopied, agg, otherThanImport>>

\* x, err := fetchBase64DataFromDataURL(dataURL); if err != nil { ...; return }
CsvFetch(at, dataURL, next) ==
    /\ pc = at
    /\ Track("adapterStep")
    /\ IF fetchBase64DataFromDataURL(dataURL) # "nil"
       THEN FailWith(fetchBase64DataFromDataURL(dataURL))
       ELSE Goto(next) /\ UNCHANGED out
    /\ UNCHANGED <<req, url, reg, cacheCopied, agg, otherThanImport>>

\* f, err := os.CreateTemp("", pattern); if err != nil { ...; return }; defer f.Close()
CsvCreateTemp(at, file, next) ==
    /\ pc = at
    /\ Track("adapterStep")
    /\ \/ FailWith("ErrCreateFile")
       \/ /\ pc' = next
          /\ tmp' = tmp \cup {file}
          /\ created' = created \cup {file}
          /\ open' = open \cup {file}
          /\ defers' = Append(defers, [op |-> "Close", target |-> file])
          /\ UNCHANGED out
    /\ UNCHANGED <<req, url, reg, cacheCopied, agg, otherThanImport>>

\* _, err = f.Write(data); if err != nil { ...; return }
CsvWrite(at, next) ==
    /\ pc = at
    /\ Track("adapterStep")
    /\ \/ FailWith("ErrWritingIntoFile")
       \/ Goto(next) /\ UNCHANGED out
    /\ UNCHANGED <<req, url, reg, cacheCopied, agg, otherThanImport>>

CsvFetchModel == CsvFetch("csv_fetch_model", req.modelCsv, "csv_create_model")
CsvCreateModelFile == CsvCreateTemp("csv_create_model", "modelCsv", "csv_write_model")
CsvWriteModelFile == CsvWrite("csv_write_model", "csv_fetch_component")
CsvFetchComponent == CsvFetch("csv_fetch_component", req.componentCsv, "csv_create_component")
CsvCreateComponentFile == CsvCreateTemp("csv_create_component", "componentCsv", "csv_write_component")
CsvWriteComponentFile == CsvWrite("csv_write_component", "csv_fetch_relationship")
CsvFetchRelationship == CsvFetch("csv_fetch_relationship", req.relationshipCsv, "csv_create_relationship")
CsvCreateRelationshipFile == CsvCreateTemp("csv_create_relationship", "relationshipCsv", "csv_write_relationship")
CsvWriteRelationshipFile == CsvWrite("csv_write_relationship", "csv_mkdir_temp")

\* os.Stat/MkdirAll(modelLocation); tempDir, err := os.MkdirTemp("", "tempData");
\* defer os.RemoveAll(tempDir)
CsvMkdirTemp ==
    /\ pc = "csv_mkdir_temp"
    /\ Track("adapterStep")
    /\ \/ FailWith("ErrMkdirTemp")
       \/ /\ pc' = "csv_generate"
          /\ tmp' = tmp \cup {"tempDir"}
          /\ created' = created \cup {"tempDir"}
          /\ defers' = Append(defers, [op |-> "RemoveAll", target |-> "tempDir"])
          /\ UNCHANGED <<open, out>>
    /\ UNCHANGED <<req, url, reg, cacheCopied, agg, otherThanImport>>

\* InvokeGenerationFromSheet(...); on success sendEventForImport and
\* GetModelDirectoryPaths(tempDir), whose error is only logged.
CsvGenerate ==
    /\ pc = "csv_generate"
    /\ Track("adapterStep")
    /\ \/ FailWith("ErrGenerate") /\ UNCHANGED modelDirPaths
       \/ /\ \E n \in 0..MaxDirs : modelDirPaths' = [i \in 1..n |-> i]
          /\ events' = Append(events, "import")
          /\ Goto("csv_register")
          /\ UNCHANGED <<responses, errored>>
    /\ UNCHANGED <<req, url, idx, registerCalls, cacheCopied, agg, otherThanImport>>

\* registrationHelper.Register(dir): the registry decides the outcome.
Register(dir, ok) ==
    registerCalls' = Append(registerCalls, [dir |-> dir, ok |-> ok])

\* Faulty variant of the loop: it stops at the first Dir whose registration failed.
CsvRegisterDirAbortOnFailure ==
    /\ pc = "csv_register"
    /\ Track("register")
    /\ IF ~req.register
       THEN Return /\ UNCHANGED <<idx, registerCalls>>
       ELSE IF idx <= Len(modelDirPaths) /\ (idx = 1 \/ registerCalls[idx - 1].ok)
       THEN /\ \E ok \in BOOLEAN : Register(modelDirPaths[idx], ok)
            /\ idx' = idx + 1
            /\ Goto("csv_register")
       ELSE Goto("csv_copy") /\ UNCHANGED <<idx, registerCalls>>
    /\ UNCHANGED <<req, url, modelDirPaths, out, cacheCopied, agg, otherThanImport>>

\* if importRequest.Register { for _, dirPath := range modelDirPaths { Register } }
\* else { return }  -- one iteration of the loop, or the loop's exit.
CsvRegisterDir ==
    /\ pc = "csv_register"
    /\ Track("register")
    /\ IF ~req.register
       THEN Return /\ UNCHANGED <<idx, registerCalls>>
       ELSE IF idx <= Len(modelDirPaths)
       THEN /\ \E ok \in BOOLEAN : Register(modelDirPaths[idx], ok)
            /\ idx' = idx + 1
            /\ Goto("csv_register")
       ELSE Goto("csv_copy") /\ UNCHANGED <<idx, registerCalls>>
    /\ UNCHANGED <<req, url, modelDirPaths, out, cacheCopied, agg, otherThanImport>>

\* os.Stat/MkdirAll(modelLocation); err = utils.CopyDirectory(tempDir, modelLocation)
CsvCopyDirectory ==
    /\ pc = "csv_copy"
    /\ Track("adapterStep")
    /\ \/ FailWith("ErrCopyDirectory") /\ UNCHANGED cacheCopied
       \/ cacheCopied' = TRUE /\ Goto("tail") /\ UNCHANGED out
    /\ UNCHANGED <<req, url, reg, agg, otherThanImport>>

\* ---- case "url" ----

\* Faulty variant: the name keeps the casing it was supplied in.
ToLowerOmitted(name) == name

\* strings.ToLower
ToLower(name) ==
    [i \in 1..Len(name) |-> IF name[i] \in 65..90 THEN name[i] + 32 ELSE name[i]]

\* One fallible step of the url adapter, called with the model name `name`
\* (held in model.Model from then on) and recorded in `used`.
UrlStep(at, cause, next, name, used) ==
    /\ pc = at
    /\ Track("adapterStep")
    /\ mdl' = name
    /\ urlUsed' = used
    /\ \/ FailWith(cause)
       \/ Goto(next) /\ UNCHANGED out
    /\ UNCHANGED <<req, reg, cacheCopied, agg, otherThanImport>>

\* model := &ModelCSV{...}; setDefaultValues(model);
\* model.Model = strings.ToLower(model.Model);
\* pkg, version, err := GenerateModels(model.Registrant, url, model.Model)
UrlGenerateModels ==
    UrlStep("url_generate_models", "ErrGenerateModels", "url_versioned_dir",
            ToLower(req.model), [urlUsed EXCEPT !.generate = ToLower(req.model)])

\* modelDirPath, compDirPath, err := CreateVersionedDirectoryForModelAndComp(version, model.Model)
UrlCreateVersionedDirectory ==
    UrlStep("url_versioned_dir", "ErrVersionedDir", "url_write_model",
            mdl, [urlUsed EXCEPT !.path = mdl])

\* filePath := filepath.Join(modelDirPath, model.Model+".json");
\* modelDef := model.CreateModelDefinition(version, DefVersion);
\* err = modelDef.WriteModelDefinition(filePath, "json")
UrlWriteModelDefinition ==
    UrlStep("url_write_model", "ErrWriteModelDefinition", "url_generate_components",
            mdl, [urlUsed EXCEPT !.file = mdl, !.identity = mdl])

\* GenerateComponentsFromPkg; on success sendEventForImport.
UrlGenerateComponents ==
    /\ pc = "url_generate_components"
    /\ Track("adapterStep")
    /\ \/ FailWith("ErrGenerateComponents")
       \/ /\ events' = Append(events, "import")
          /\ Goto("url_register")
          /\ UNCHANGED <<responses, errored>>
    /\ UNCHANGED <<req, url, reg, cacheCopied, agg, otherThanImport>>

\* if importRequest.Register { Register(NewDir(modelDirPath)) } else { return }
UrlRegister ==
    /\ pc = "url_register"
    /\ Track("register")
    /\ IF req.register
       THEN /\ \E ok \in BOOLEAN : Register("modelDirPath", ok)
            /\ Goto("tail")
       ELSE Return /\ UNCHANGED registerCalls
    /\ UNCHANGED <<req, url, modelDirPaths, idx, out, cacheCopied, agg, otherThanImport>>

\* ---- case "file" ----

\* base64Data, err := json.Marshal(ModelFile); on error http.Error 500, return
FileMarshal ==
    /\ pc = "file_marshal"
    /\ Track("adapterStep")
    /\ \/ /\ responses' = Append(responses, ErrorResponse("500", "ErrMarshal"))
          /\ errored' = TRUE
          /\ Return
          /\ UNCHANGED events
       \/ Goto("file_decode") /\ UNCHANGED out
    /\ UNCHANGED <<req, url, reg, cacheCopied, agg, otherThanImport>>

\* base64.StdEncoding.DecodeString; on error http.Error 400, return
FileDecode ==
    /\ pc = "file_decode"
    /\ Track("adapterStep")
    /\ IF req.modelFile = "badbase64"
       THEN /\ responses' = Append(responses, ErrorResponse("400", "ErrBase64"))
            /\ errored' = TRUE
            /\ Return
            /\ UNCHANGED events
       ELSE Goto("file_create_temp") /\ UNCHANGED out
    /\ UNCHANGED <<req, url, reg, cacheCopied, agg, otherThanImport>>

\* tempFile, err = CreateTemp(name, data); if err != nil { ...; return };
\* defer os.Remove(tempFile.Name())
CreateTempFile(at, next) ==
    /\ pc = at
    /\ Track("adapterStep")
    /\ \/ FailWith("ErrCreateFile")
       \/ /\ pc' = next
          /\ tmp' = tmp \cup {"tempFile"}
          /\ created' = created \cup {"tempFile"}
          /\ open' = open \cup {"tempFile"}
          /\ defers' = Append(defers, [op |-> "Remove", target |-> "tempFile"])
          /\ UNCHANGED out
    /\ UNCHANGED <<req, url, reg, cacheCopied, agg, otherThanImport>>

\* Faulty variant: the Register flag is not consulted.
RegisterTempFileAlways(at) ==
    /\ pc = at
    /\ Track("register")
    /\ \E ok \in BOOLEAN : Register("tempFile", ok)
    /\ open' = open \ {"tempFile"}
    /\ pc' = "tail"
    /\ UNCHANGED <<req, url, tmp, created, defers, modelDirPaths, idx, out, cacheCopied, agg, otherThanImport>>

\* dir = NewDir(tempFile.Name()); if importRequest.Register { Register(dir); tempFile.Close() }
RegisterTempFile(at) ==
    /\ pc = at
    /\ Track("register")
    /\ IF req.register
       THEN /\ \E ok \in BOOLEAN : Register("tempFile", ok)
            /\ open' = open \ {"tempFile"}
       ELSE UNCHANGED <<registerCalls, open>>
    /\ pc' = "tail"
    /\ UNCHANGED <<req, url, tmp, created, defers, modelDirPaths, idx, out, cacheCopied, agg, otherThanImport>>

FileCreateTemp == CreateTempFile("file_create_temp", "file_register")
FileRegister == RegisterTempFile("file_register")

\* ---- case "urlImport" ----

\* Faulty variant: every 2xx status is taken as a download.
downloadFileAny2xx(d) == IF d \in {"200", "204"} THEN "nil" ELSE "ErrDownload"

\* downloadFile: only StatusOK with a readable body yields the data.
downloadFile(d) == IF d = "200" THEN "nil" ELSE "ErrDownload"

\* fileData, err := downloadFile(url); then IsOCIArtifact / detectFileType
UrlImportDownload ==
    /\ pc = "urlimport_download"
    /\ Track("adapterStep")
    /\ IF downloadFile(req.download) # "nil"
       THEN FailWith(downloadFile(req.download))
       ELSE Goto("urlimport_create_temp") /\ UNCHANGED out
    /\ UNCHANGED <<req, url, reg, cacheCopied, agg, otherThanImport>>

UrlImportCreateTemp == CreateTempFile("urlimport_create_temp", "urlimport_register")
UrlImportRegister == RegisterTempFile("urlimport_register")

\* ---- after the switch ----

\* Workers of handleRegistrationAndError: one per registered Dir.
Workers == 1..Len(registerCalls)

\* Faulty variant: the aggregation is left out, the counts stay as declared.
HandleRegistrationAndErrorSkipped ==
    /\ pc = "tail"
    /\ Track("aggregate")
    /\ wpc' = [w \in DOMAIN wpc |-> IF w \in Workers THEN "done" ELSE "idle"]
    /\ Goto("aggregating")
    /\ UNCHANGED <<req, url, reg, out, cacheCopied, response, mu, wlocal, otherThanImport>>

\* h.handleRegistrationAndError(registrationHelper, &mu, &response, regErrorStore)
HandleRegistrationAndError ==
    /\ pc = "tail"
    /\ Track("aggregate")
    /\ wpc' = [w \in DOMAIN wpc |-> IF w \in Workers THEN "lock" ELSE "idle"]
    /\ Goto("aggregating")
    /\ UNCHANGED <<req, url, reg, out, cacheCopied, response, mu, wlocal, otherThanImport>>

\* mu.Lock()
WorkerLock(w) ==
    /\ pc = "aggregating" /\ wpc[w] = "lock"
    /\ mu = 0
    /\ mu' = w
    /\ wpc' = [wpc EXCEPT ![w] = "read"]
    /\ UNCHANGED <<req, url, pc, tmp, created, open, defers, reg, out, cacheCopied,
                   afterErr, response, wlocal, otherThanImport>>

\* the worker reads the counts ...
WorkerRead(w) ==
    /\ pc = "aggregating" /\ wpc[w] = "read"
    /\ wlocal' = [wlocal EXCEPT ![w] = response]
    /\ wpc' = [wpc EXCEPT ![w] = "write"]
    /\ UNCHANGED <<req, url, pc, tmp, created, open, defers, reg, out, cacheCopied,
                   afterErr, response, mu, otherThanImport>>

\* ... and writes them back with its Dir's outcome added
WorkerWrite(w) ==
    /\ pc = "aggregating" /\ wpc[w] = "write"
    /\ response' = [total |-> wlocal[w].total + 1,
                    err |-> wlocal[w].err + (IF registerCalls[w].ok THEN 0 ELSE 1)]
    /\ wpc' = [wpc EXCEPT ![w] = "unlock"]
    /\ UNCHANGED <<req, url, pc, tmp, created, open, defers, reg, out, cacheCopied,
                   afterErr, mu, wlocal, otherThanImport>>

\* mu.Unlock()
WorkerUnlock(w) ==
    /\ pc = "aggregating" /\ wpc[w] = "unlock"
    /\ mu' = 0
    /\ wpc' = [wpc EXCEPT ![w] = "done"]
    /\ UNCHANGED <<req, url, pc, tmp, created, open, defers, reg, out, cacheCopied,
                   afterErr, response, wlocal, otherThanImport>>

\* Faulty variant: the report is written without waiting for the aggregation.
SendSuccessResponseEarly ==
    /\ pc = "aggregating"
    /\ Track("successReport")
    /\ responses' = Append(responses,
           [kind |-> "success", status |-> "200", cause |-> "nil",
            total |-> response.total, err |-> response.err,
            errMsg |-> (response.err > 0)])
    /\ events' = Append(events, "success")
    /\ Return
    /\ UNCHANGED <<req, url, reg, errored, cacheCopied, agg, otherThanImport>>

\* Faulty variant: the error message is never attached to the report.
SendSuccessResponseWithoutErrMsg ==
    /\ pc = "aggregating"
    /\ \A w \in Workers : wpc[w] = "done"
    /\ Track("successReport")
    /\ responses' = Append(responses,
           [kind |-> "success", status |-> "200", cause |-> "nil",
            total |-> response.total, err |-> response.err,
            errMsg |-> FALSE])
    /\ events' = Append(events, "success")
    /\ Return
    /\ UNCHANGED <<req, url, reg, errored, cacheCopied, agg, otherThanImport>>

\* wg.Wait(); message = writeMessageString(&response); errMsg only when
\* TotalErrCount > 0; h.sendSuccessResponse(...); the handler returns.
SendSuccessResponse ==
    /\ pc = "aggregating"
    /\ \A w \in Workers : wpc[w] = "done"
    /\ Track("successReport")
    /\ responses' = Append(responses,
           [kind |-> "success", status |-> "200", cause |-> "nil",
            total |-> response.total, err |-> response.err,
            errMsg |-> (response.err > 0)])
    /\ events' = Append(events, "success")
    /\ Return
    /\ UNCHANGED <<req, url, reg, errored, cacheCopied, agg, otherThanImport>>

Next ==
    \/ DecodeBody
    \/ CsvSetLogger
    \/ CsvFetchModel \/ CsvCreateModelFile \/ CsvWriteModelFile
    \/ CsvFetchComponent \/ CsvCreateComponentFile \/ CsvWriteComponentFile
    \/ CsvFetchRelationship \/ CsvCreateRelationshipFile \/ CsvWriteRelationshipFile
    \/ CsvMkdirTemp \/ CsvGenerate \/ CsvRegisterDir \/ CsvCopyDirectory
    \/ UrlGenerateModels \/ UrlCreateVersionedDirectory \/ UrlWriteModelDefinition
    \/ UrlGenerateComponents \/ UrlRegister
    \/ FileMarshal \/ FileDecode \/ FileCreateTemp \/ FileRegister
    \/ UrlImportDownload \/ UrlImportCreateTemp \/ UrlImportRegister
    \/ HandleRegistrationAndError
    \/ \E w \in 1..MaxDirs : WorkerLock(w) \/ WorkerRead(w) \/ WorkerWrite(w) \/ WorkerUnlock(w)
    \/ SendSuccessResponse

Spec == Init /\ [][Next]_vars

(***************************************************************************)
(* ExportModel                                                             *)
(***************************************************************************)

ExportRequests ==
    [id : {"", "id1"}, name : {"", "n1"}, version : {"", "v1"},
     output_format : {"", "json", "yaml"}, file_type : {"", "oci", "tar"},
     components : {"", "false", "maybe"}, relationships : {"", "false", "maybe"}]

\* Faulty variant: no default for an omitted file_type.
fileTypesNoDefault(q) == q.file_type

\* if fileTypes == "" { fileTypes = "oci" }
fileTypes(q) == IF q.file_type = "" THEN "oci" ELSE q.file_type

\* Faulty variant: no default for an omitted output_format.
outputFormatNoDefault(q) == q.output_format

\* if outputFormat == "" { outputFormat = "json" }
outputFormat(q) == IF q.output_format = "" THEN "json" ELSE q.output_format

\* v, err := strconv.ParseBool(s); if err != nil { v = true }
ParseBoolOrTrue(s) ==
    IF s \in {"1", "t", "T", "TRUE", "true", "True"} THEN TRUE
    ELSE IF s \in {"0", "f", "F", "FALSE", "false", "False"} THEN FALSE
    ELSE TRUE

\* Faulty variant: the id is left out of the message.
NotFoundMessageWithoutId(q) ==
    <<"model with">>
    \o (IF q.name # "" THEN <<"name", q.name>> ELSE <<>>)
    \o (IF q.version # "" THEN <<"version", q.version>> ELSE <<>>)
    \o <<"has not been found">>

\* The message of the 404: "model with [id X ][name Y ][version Z ]has not been found"
NotFoundMessage(q) ==
    <<"model with">>
    \o (IF q.id # "" THEN <<"id", q.id>> ELSE <<>>)
    \o (IF q.name # "" THEN <<"name", q.name>> ELSE <<>>)
    \o (IF q.version # "" THEN <<"version", q.version>> ELSE <<>>)
    \o <<"has not been found">>

\* A directory or file under modelDir.
Entry(dir, base, n, ext, kind, model) ==
    [dir |-> dir, base |-> base, n |-> n, ext |-> ext, kind |-> kind, model |-> model]
Directory(dir) == Entry(dir, "", 0, "", "dir", NoModel)

\* dirs := []string{versionDir, versionDir/components, versionDir/relationships};
\* MkdirAll(versionDir) makes modelDir and the directories below it.
ExportDirs ==
    <<{Directory("modelDir"), Directory("versionDir")},
      {Directory("components")},
      {Directory("relationships")}>>

\* The handler returns, leaving fs unless os.RemoveAll(modelDir) was deferred.
XReturn(fs) ==
    /\ xpc' = "done"
    /\ xfs' = IF xdefer THEN {} ELSE fs

\* http.Error(rw, err.Error(), http.StatusInternalServerError); return
XFail(fs) ==
    /\ xresp' = [NoResponse EXCEPT !.status = "500"]
    /\ XReturn(fs)

\* e, _, _, err := h.registryManager.GetEntities(modelFilter): an error is a
\* 500, no entity a 404 with the message, else model := e[0].
ExportGetEntities ==
    /\ xpc = "idle"
    /\ \/ xquery' = "error" /\ XFail(xfs) /\ UNCHANGED xmodel
       \/ /\ xquery' = "empty"
          /\ xresp' = [NoResponse EXCEPT !.status = "404", !.message = NotFoundMessage(xreq)]
          /\ XReturn(xfs)
          /\ UNCHANGED xmodel
       \/ /\ xquery' = "found"
          /\ \E nc \in 0..MaxComps, nr \in 0..MaxRels :
               xmodel' = [name |-> "m1",
                          components |-> IF ParseBoolOrTrue(xreq.components)
                                         THEN Slice([i \in 1..nc |-> i]) ELSE Nil,
                          relationships |-> IF ParseBoolOrTrue(xreq.relationships)
                                            THEN Slice([i \in 1..nr |-> i]) ELSE Nil]
          /\ xpc' = "mkdir"
          /\ UNCHANGED <<xfs, xresp>>
    /\ xi' = 1
    /\ UNCHANGED <<xreq, xcomps, xrels, xmade, xdefer, xart, otherThanExport>>

\* for _, dir := range dirs { err = os.MkdirAll(dir, 0700); if err != nil {
\* ...; return } }  then  defer os.RemoveAll(modelDir)
ExportMkdirAll ==
    /\ xpc = "mkdir"
    /\ \/ XFail(xfs) /\ UNCHANGED <<xi, xmade, xdefer>>
       \/ /\ xfs' = xfs \cup ExportDirs[xi]
          /\ xmade' = xmade \cup ExportDirs[xi]
          /\ IF xi < Len(ExportDirs)
             THEN xi' = xi + 1 /\ xpc' = "mkdir" /\ UNCHANGED xdefer
             ELSE xi' = 1 /\ xpc' = "prepare" /\ xdefer' = TRUE
          /\ UNCHANGED xresp
    /\ UNCHANGED <<xreq, xquery, xmodel, xcomps, xrels, xart, otherThanExport>>

\* Faulty variant: the model keeps its Components and Relationships.
ExportPrepareWithoutClearing ==
    /\ xpc = "prepare"
    /\ xcomps' = xmodel.components.items
    /\ xrels' = xmodel.relationships.items
    /\ xpc' = "write_model"
    /\ UNCHANGED <<xreq, xquery, xmodel, xi, xfs, xmade, xdefer, xart, xresp, otherThanExport>>

\* components / relationships are taken out of the model (empty when nil),
\* then model.Relationships = nil; model.Components = nil
ExportPrepare ==
    /\ xpc = "prepare"
    /\ xcomps' = xmodel.components.items
    /\ xrels' = xmodel.relationships.items
    /\ xmodel' = [xmodel EXCEPT !.components = Nil, !.relationships = Nil]
    /\ xpc' = "write_model"
    /\ UNCHANGED <<xreq, xquery, xi, xfs, xmade, xdefer, xart, xresp, otherThanExport>>

\* err = model.WriteModelDefinition(versionDir/model.<fmt>, fmt); on error 500
ExportWriteModel ==
    /\ xpc = "write_model"
    /\ \/ XFail(xfs) /\ UNCHANGED xmade
       \/ LET f == Entry("versionDir", "model", 0, outputFormat(xreq), "model", xmodel)
          IN /\ xfs' = xfs \cup {f}
             /\ xmade' = xmade \cup {f}
             /\ xpc' = "write_components"
             /\ UNCHANGED xresp
    /\ xi' = 1
    /\ UNCHANGED <<xreq, xquery, xmodel, xcomps, xrels, xdefer, xart, otherThanExport>>

\* for _, e := range items { e.Model = *model; err := e.Write...(dir, fmt);
\* if err != nil { h.log.Error(err) } }  -- one iteration, or the loop's exit
ExportWriteEntities(at, items, dir, kind, next) ==
    /\ xpc = at
    /\ IF xi <= Len(items)
       THEN /\ \/ UNCHANGED <<xfs, xmade>>
               \/ LET f == Entry(dir, kind, items[xi], outputFormat(xreq), kind, xmodel)
                  IN xfs' = xfs \cup {f} /\ xmade' = xmade \cup {f}
            /\ xi' = xi + 1
            /\ xpc' = at
       ELSE xi' = 1 /\ xpc' = next /\ UNCHANGED <<xfs, xmade>>
    /\ UNCHANGED <<xreq, xquery, xmodel, xcomps, xrels, xdefer, xart, xresp, otherThanExport>>

ExportWriteComponents ==
    ExportWriteEntities("write_components", xcomps, "components", "component",
                        "write_relationships")
ExportWriteRelationships ==
    ExportWriteEntities("write_relationships", xrels, "relationships", "relationship",
                        "build")

\* oci: img, err := meshkitOci.BuildImage(modelDir)
\* else: err := meshkitutils.Compress(modelDir, &tarData)        on error 500
ExportBuild ==
    /\ xpc = "build"
    /\ \/ XFail(xfs) /\ UNCHANGED xart
       \/ xart' = xfs /\ xpc' = "save" /\ UNCHANGED <<xfs, xresp>>
    /\ UNCHANGED <<xreq, xquery, xmodel, xcomps, xrels, xi, xmade, xdefer, otherThanExport>>

\* The archive file written into modelDir.
TarFile(q) ==
    Entry("modelDir", "model", 0, IF fileTypes(q) = "oci" THEN "tar" ELSE "tar.gz",
          "archive", NoModel)

\* oci: err = meshkitOci.SaveOCIArtifact(img, modelDir/model.tar, model.Name)
\* else: err = os.WriteFile(modelDir/model.tar.gz, tarData.Bytes(), 0644)   on error 500
ExportSave ==
    /\ xpc = "save"
    /\ \/ XFail(xfs) /\ UNCHANGED xmade
       \/ /\ xfs' = xfs \cup {TarFile(xreq)}
          /\ xmade' = xmade \cup {TarFile(xreq)}
          /\ xpc' = "read"
          /\ UNCHANGED xresp
    /\ UNCHANGED <<xreq, xquery, xmodel, xcomps, xrels, xi, xdefer, xart, otherThanExport>>

\* Content-Type and Content-Disposition of the two packagings.
ExportHeaders(q, model) ==
    IF fileTypes(q) = "oci"
    THEN [contentType |-> "application/x-tar",
          filename |-> [base |-> model.name, ext |-> ".tar"]]
    ELSE [contentType |-> "application/gzip",
          filename |-> [base |-> model.name, ext |-> ".tar.gz"]]

\* byt, _ = os.ReadFile(tarfileName) (the error is dropped: byt is then empty),
\* the headers are set, and rw.Write(byt) sends the response; the handler returns.
ExportSend ==
    /\ xpc = "read"
    /\ \E readOk \in BOOLEAN, writeOk \in BOOLEAN :
         xresp' = [status |-> "200",
                   contentType |-> ExportHeaders(xreq, xmodel).contentType,
                   filename |-> ExportHeaders(xreq, xmodel).filename,
                   message |-> <<>>,
                   body |-> IF readOk THEN xart ELSE {},
                   delivered |-> writeOk]
    /\ XReturn(xfs)
    /\ UNCHANGED <<xreq, xquery, xmodel, xcomps, xrels, xi, xmade, xdefer, xart, otherThanExport>>

InitExport ==
    /\ req \in {r \in ImportRequests : ~r.bodyOk}
    /\ InitImportIdle
    /\ xreq \in ExportRequests
    /\ xpc = "idle"
    /\ xquery = "none"
    /\ xmodel = NoModel
    /\ xcomps = <<>>
    /\ xrels = <<>>
    /\ xi = 1
    /\ xfs = {}
    /\ xmade = {}
    /\ xdefer = FALSE
    /\ xart = {}
    /\ xresp = NoResponse
    /\ InitHandlersIdle
    /\ InitConcurrentIdle
    /\ InitRegisterEntityIdle
    /\ InitListingIdle

NextExport ==
    \/ ExportGetEntities
    \/ ExportMkdirAll
    \/ ExportPrepare
    \/ ExportWriteModel
    \/ ExportWriteComponents
    \/ ExportWriteRelationships
    \/ ExportBuild
    \/ ExportSave
    \/ ExportSend

SpecExport == InitExport /\ [][NextExport]_vars

(***************************************************************************)
(* UpdateEntityStatus and RegisterMeshmodelComponents                      *)
(***************************************************************************)

\* A request to one of the two handlers: whether its body decodes and how
\* the calls the handler makes answer.
HandlerRequests ==
    [handler : {"UpdateEntityStatus"}, bodyOk : BOOLEAN, entityType : {"model"},
     entityOk : {TRUE}, registryOk : BOOLEAN, logsOk : {TRUE}]
    \cup
    [handler : {"RegisterMeshmodelComponents"}, bodyOk : BOOLEAN,
     entityType : {"component", "relationship"}, entityOk : BOOLEAN,
     registryOk : BOOLEAN, logsOk : BOOLEAN]

StatusNoContent == 204
StatusOK == 200
StatusBadRequest == 400
StatusInternalServerError == 500

\* http.Error(rw, ..., status); return
HttpError(status) ==
    /\ hresp' = Append(hresp, status)
    /\ hpc' = "done"

\* err := dec.Decode(&updateData); a failure is answered with
\* http.StatusInternalServerError
UesDecode ==
    /\ hpc = "idle" /\ hreq.handler = "UpdateEntityStatus"
    /\ IF hreq.bodyOk
       THEN hpc' = "ues_update" /\ hresp' = hresp
       ELSE HttpError(StatusInternalServerError)
    /\ UNCHANGED <<hreq, herr, hcalls, hevents, pub, otherThanHandlers>>

\* err = h.registryManager.UpdateEntityStatus(...)
UesUpdate ==
    /\ hpc = "ues_update"
    /\ hcalls' = Append(hcalls, "UpdateEntityStatus")
    /\ herr' = IF hreq.registryOk THEN "nil" ELSE "registry"
    /\ hpc' = "ues_persist"
    /\ UNCHANGED <<hreq, hevents, hresp, pub, otherThanHandlers>>

\* Faulty variant: the event is Informational whatever the registry answered.
UesPersistEventInformational ==
    /\ hpc = "ues_persist"
    /\ hevents' = Append(hevents, "Informational")
    /\ hpc' = "ues_publish"
    /\ UNCHANGED <<hreq, herr, hcalls, hresp, pub, otherThanHandlers>>

\* the event is built with severity Error or Informational and persisted
UesPersistEvent ==
    /\ hpc = "ues_persist"
    /\ hevents' = Append(hevents, IF herr = "nil" THEN "Informational" ELSE "Error")
    /\ hpc' = "ues_publish"
    /\ UNCHANGED <<hreq, herr, hcalls, hresp, pub, otherThanHandlers>>

\* go h.config.EventBroadcaster.Publish(userID, event)
UesPublish ==
    /\ hpc = "ues_publish"
    /\ pub' = "dispatched"
    /\ hpc' = "ues_respond"
    /\ UNCHANGED <<hreq, herr, hcalls, hevents, hresp, otherThanHandlers>>

\* Faulty variant: the answer is written only once the publish has completed.
UesRespondAfterPublish ==
    /\ hpc = "ues_respond"
    /\ pub = "completed"
    /\ HttpError(IF herr = "nil" THEN StatusNoContent ELSE StatusInternalServerError)
    /\ UNCHANGED <<hreq, herr, hcalls, hevents, pub, otherThanHandlers>>

\* http.Error(rw, err.Error(), http.StatusInternalServerError) on a registry
\* error, rw.WriteHeader(http.StatusNoContent) otherwise
UesRespond ==
    /\ hpc = "ues_respond"
    /\ HttpError(IF herr = "nil" THEN StatusNoContent ELSE StatusInternalServerError)
    /\ UNCHANGED <<hreq, herr, hcalls, hevents, pub, otherThanHandlers>>

\* err := dec.Decode(&cc); a failure is answered with http.StatusBadRequest
RmcDecode ==
    /\ hpc = "idle" /\ hreq.handler = "RegisterMeshmodelComponents"
    /\ IF hreq.bodyOk
       THEN hpc' = "rmc_switch" /\ hresp' = hresp
       ELSE HttpError(StatusBadRequest)
    /\ UNCHANGED <<hreq, herr, hcalls, hevents, pub, otherThanHandlers>>

\* switch cc.EntityType: only a component is unmarshalled (a failure is
\* answered with http.StatusBadRequest); any other type goes on to the logs
RmcUnmarshal ==
    /\ hpc = "rmc_switch"
    /\ IF hreq.entityType # "component"
       THEN hpc' = "rmc_logs" /\ hresp' = hresp
       ELSE IF hreq.entityOk
            THEN hpc' = "rmc_register" /\ hresp' = hresp
            ELSE HttpError(StatusBadRequest)
    /\ UNCHANGED <<hreq, herr, hcalls, hevents, pub, otherThanHandlers>>

\* _, _, err = h.registryManager.RegisterEntity(cc.Connection, &c);
\* helpers.HandleError(...) only logs
RmcRegisterEntity ==
    /\ hpc = "rmc_register"
    /\ hcalls' = Append(hcalls, "RegisterEntity")
    /\ herr' = IF hreq.registryOk THEN "nil" ELSE "registry"
    /\ hpc' = "rmc_logs"
    /\ UNCHANGED <<hreq, hevents, hresp, pub, otherThanHandlers>>

\* err = helpers.WriteLogsToFiles(): err is assigned anew; a failure is
\* answered with http.StatusBadRequest
RmcWriteLogs ==
    /\ hpc = "rmc_logs"
    /\ herr' = IF hreq.logsOk THEN "nil" ELSE "logs"
    /\ IF hreq.logsOk
       THEN hpc' = "rmc_publish" /\ hresp' = hresp
       ELSE HttpError(StatusBadRequest)
    /\ UNCHANGED <<hreq, hcalls, hevents, pub, otherThanHandlers>>

\* go h.config.MeshModelSummaryChannel.Publish()
RmcPublish ==
    /\ hpc = "rmc_publish"
    /\ pub' = "dispatched"
    /\ hpc' = "rmc_return"
    /\ UNCHANGED <<hreq, herr, hcalls, hevents, hresp, otherThanHandlers>>

\* the handler returns without having written anything: net/http answers 200
RmcReturn ==
    /\ hpc = "rmc_return"
    /\ HttpError(StatusOK)
    /\ UNCHANGED <<hreq, herr, hcalls, hevents, pub, otherThanHandlers>>

\* The goroutine's Publish call returns; nothing guarantees that it does.
PublishCompletes ==
    /\ pub = "dispatched"
    /\ pub' = "completed"
    /\ UNCHANGED <<hreq, hpc, herr, hcalls, hevents, hresp, otherThanHandlers>>

\* A step of the handler itself.
HandlerStep ==
    \/ UesDecode \/ UesUpdate \/ UesPersistEvent \/ UesPublish \/ UesRespond
    \/ RmcDecode \/ RmcUnmarshal \/ RmcRegisterEntity \/ RmcWriteLogs
    \/ RmcPublish \/ RmcReturn

InitHandlers ==
    /\ req = CHOOSE r \in ImportRequests : ~r.bodyOk
    /\ InitImportIdle
    /\ InitExportIdle
    /\ hreq \in HandlerRequests
    /\ hpc = "idle"
    /\ herr = "nil"
    /\ hcalls = <<>>
    /\ hevents = <<>>
    /\ hresp = <<>>
    /\ pub = "none"
    /\ InitConcurrentIdle
    /\ InitRegisterEntityIdle
    /\ InitListingIdle

NextHandlers ==
    \/ UesDecode \/ UesUpdate \/ UesPersistEvent \/ UesPublish \/ UesRespond
    \/ RmcDecode \/ RmcUnmarshal \/ RmcRegisterEntity \/ RmcWriteLogs
    \/ RmcPublish \/ RmcReturn
    \/ PublishCompletes

SpecHandlers == InitHandlers /\ [][NextHandlers]_vars


(***************************************************************************)
(* Two requests at the same time: the temporary paths of RegisterMeshmodels *)
(* and ExportModel on the filesystem they share                            *)
(***************************************************************************)

\* Names of one letter, A, a and b.
ConcNames == {n \in ModelNames : Len(n) = 1}

ConcRequests ==
    [handler : {"import"}, uploadType : {"csv", "file", "urlImport"}, name : {<<>>}]
    \cup [handler : {"import"}, uploadType : {"url"}, name : ConcNames]
    \cup [handler : {"export"}, uploadType : {""}, name : ConcNames]

\* A file or directory `file` under `root` whose content request `by` wrote;
\* the root itself is the entry with file "".
Entry2(root, file, by) == [root |-> root, file |-> file, by |-> by]
Exists(root) == \E e \in cfs : e.root = root
WriteFile(root, file, p) ==
    {e \in cfs : ~(e.root = root /\ e.file = file)} \cup {Entry2(root, file, p)}
\* os.MkdirAll: an existing directory is left as it is
MkdirAll(root, p) == IF Exists(root) THEN cfs ELSE cfs \cup {Entry2(root, "", p)}
\* os.RemoveAll / os.Remove
RemoveAll(root) == {e \in cfs : e.root # root}

\* The request starts using root, the path it will register or package.
Use(p, root) ==
    /\ cuse' = [cuse EXCEPT ![p] = @ \cup {root}]
    /\ cdir' = [cdir EXCEPT ![p] = root]

CGoto(p, l) == cpc' = [cpc EXCEPT ![p] = l]

\* The positions at which an export still has files to package or read back.
Packaging == {"x_model", "x_components", "x_build", "x_save", "x_read"}

\* The deferred removal runs and the handler returns.
Cleanup(p, removes) ==
    /\ cfs' = IF removes THEN RemoveAll(cdir[p]) ELSE cfs
    /\ clost' = [q \in Slots |->
                    clost[q] \/ (removes /\ q # p /\ cdir[p] \in cuse[q]
                                 /\ cpc[q] \in Packaging \cup {"register"})]
    /\ cuse' = [cuse EXCEPT ![p] = {}]
    /\ CGoto(p, "done")

\* os.CreateTemp("", pattern) / os.MkdirTemp("", pattern): a name that does
\* not exist yet
CcCreateTemp(p, at, kind, next) ==
    /\ cpc[p] = at
    /\ \E n \in 1..MaxTemp :
         /\ ~Exists(Root(kind, <<n>>))
         /\ cfs' = WriteFile(Root(kind, <<n>>), "", p)
         /\ Use(p, Root(kind, <<n>>))
    /\ CGoto(p, next)
    /\ UNCHANGED <<creq, cgot, cout, clost, otherThanConcurrent>>

\* modelCsvFile, err := os.CreateTemp("", "model-*.csv")
CcCsvCreateModelFile(p) ==
    /\ creq[p].uploadType = "csv"
    /\ CcCreateTemp(p, "idle", "model-*.csv", "csv_component")
\* componentCsvFile, err := os.CreateTemp("", "component-*.csv")
CcCsvCreateComponentFile(p) ==
    CcCreateTemp(p, "csv_component", "component-*.csv", "csv_relationship")
\* relationshipCsvFile, err := os.CreateTemp("", "relationship-*.csv")
CcCsvCreateRelationshipFile(p) ==
    CcCreateTemp(p, "csv_relationship", "relationship-*.csv", "csv_tempdir")
\* tempDir, err := os.MkdirTemp("", "tempData"); defer os.RemoveAll(tempDir)
CcCsvMkdirTemp(p) ==
    CcCreateTemp(p, "csv_tempdir", "tempData", "csv_generate")

\* Writing `file` under the request's directory.
CcWrite(p, at, file, next) ==
    /\ cpc[p] = at
    /\ cfs' = WriteFile(cdir[p], file, p)
    /\ CGoto(p, next)
    /\ UNCHANGED <<creq, cuse, cdir, cgot, cout, clost, otherThanConcurrent>>

\* InvokeGenerationFromSheet(&wg, tempDir, ...)
CcCsvGenerate(p) == CcWrite(p, "csv_generate", "models", "register")

\* utils.CreateVersionedDirectoryForModelAndComp(version, model.Model): the
\* versioned directory of the lower-cased model name (two requests for one
\* model resolve the same version)
CcUrlCreateVersionedDirectory(p) ==
    /\ cpc[p] = "idle" /\ creq[p].uploadType = "url"
    /\ cfs' = MkdirAll(Root("versioned", ToLower(creq[p].name)), p)
    /\ Use(p, Root("versioned", ToLower(creq[p].name)))
    /\ CGoto(p, "url_write")
    /\ UNCHANGED <<creq, cgot, cout, clost, otherThanConcurrent>>

\* modelDef.WriteModelDefinition(filePath, "json")
CcUrlWriteModelDefinition(p) == CcWrite(p, "url_write", "model", "url_components")
\* GenerateComponentsFromPkg(pkg, compDirPath, ...)
CcUrlGenerateComponents(p) == CcWrite(p, "url_components", "components", "register")

\* tempFile, err = CreateTemp(name, data); defer os.Remove(tempFile.Name())
CcCreateTempFile(p) ==
    /\ creq[p].uploadType \in {"file", "urlImport"}
    /\ CcCreateTemp(p, "idle", "tempFile", "register")

\* registrationHelper.Register(dir) reads what is under the directory
CcRegister(p) ==
    /\ cpc[p] = "register"
    /\ cgot' = [cgot EXCEPT ![p] = {e \in cfs : e.root = cdir[p]}]
    /\ CGoto(p, "return")
    /\ UNCHANGED <<creq, cfs, cuse, cdir, cout, clost, otherThanConcurrent>>

\* the deferred os.RemoveAll(tempDir) / os.Remove(tempFile.Name()) run; the
\* url adapter removes nothing
CcReturn(p) ==
    /\ cpc[p] = "return"
    /\ Cleanup(p, creq[p].uploadType # "url")
    /\ UNCHANGED <<creq, cdir, cgot, cout, otherThanConcurrent>>

\* modelDir := filepath.Join(os.TempDir(), model.Name); os.MkdirAll of the
\* directories under it; defer os.RemoveAll(modelDir)
CeMkdirAll(p) ==
    /\ cpc[p] = "idle" /\ creq[p].handler = "export"
    /\ cfs' = MkdirAll(Root("export", creq[p].name), p)
    /\ Use(p, Root("export", creq[p].name))
    /\ CGoto(p, "x_model")
    /\ UNCHANGED <<creq, cgot, cout, clost, otherThanConcurrent>>

\* A step of the export that writes `file` under modelDir; it fails when the
\* directory is gone, and the failure is answered (fatal) or only logged.
CeWrite(p, at, file, next, fatal) ==
    /\ cpc[p] = at
    /\ cfs' = IF Exists(cdir[p]) THEN WriteFile(cdir[p], file, p) ELSE cfs
    /\ IF Exists(cdir[p]) \/ ~fatal
       THEN CGoto(p, next) /\ cout' = cout
       ELSE CGoto(p, "x_return") /\ cout' = [cout EXCEPT ![p].status = "error"]
    /\ UNCHANGED <<creq, cuse, cdir, cgot, clost, otherThanConcurrent>>

\* model.WriteModelDefinition(...): an error is answered with 500
CeWriteModel(p) == CeWrite(p, "x_model", "model", "x_components", TRUE)
\* the component and relationship loops: an error is only logged
CeWriteComponents(p) == CeWrite(p, "x_components", "components", "x_build", FALSE)

\* meshkitOci.BuildImage(modelDir) / meshkitutils.Compress(modelDir, &tarData)
\* read everything under modelDir
CeBuild(p) ==
    /\ cpc[p] = "x_build"
    /\ IF Exists(cdir[p])
       THEN /\ cgot' = [cgot EXCEPT ![p] = {e \in cfs : e.root = cdir[p] /\ e.file # ""}]
            /\ CGoto(p, "x_save") /\ cout' = cout
       ELSE /\ CGoto(p, "x_return") /\ cout' = [cout EXCEPT ![p].status = "error"]
            /\ cgot' = cgot
    /\ UNCHANGED <<creq, cfs, cuse, cdir, clost, otherThanConcurrent>>

\* SaveOCIArtifact(img, tarfileName, ...) / os.WriteFile(tarfileName, ...)
CeSave(p) == CeWrite(p, "x_save", "tar", "x_read", TRUE)

\* byt, _ = os.ReadFile(tarfileName); rw.Write(byt): a failed read is ignored
CeRead(p) ==
    /\ cpc[p] = "x_read"
    /\ cout' = [cout EXCEPT ![p] =
          [status |-> "ok",
           tarBy |-> IF \E e \in cfs : e.root = cdir[p] /\ e.file = "tar"
                     THEN (CHOOSE e \in cfs : e.root = cdir[p] /\ e.file = "tar").by
                     ELSE 0]]
    /\ CGoto(p, "x_return")
    /\ UNCHANGED <<creq, cfs, cuse, cdir, cgot, clost, otherThanConcurrent>>

\* the deferred os.RemoveAll(modelDir) runs
CeReturn(p) ==
    /\ cpc[p] = "x_return"
    /\ Cleanup(p, TRUE)
    /\ UNCHANGED <<creq, cdir, cgot, cout, otherThanConcurrent>>

InitConcurrent ==
    /\ req = CHOOSE r \in ImportRequests : ~r.bodyOk
    /\ InitImportIdle
    /\ InitExportIdle
    /\ InitHandlersIdle
    /\ InitRegisterEntityIdle
    /\ InitListingIdle
    /\ creq \in [Slots -> ConcRequests]
    /\ cpc = [p \in Slots |-> "idle"]
    /\ cfs = {}
    /\ cuse = [p \in Slots |-> {}]
    /\ cdir = [p \in Slots |-> NoRoot]
    /\ cgot = [p \in Slots |-> {}]
    /\ cout = [p \in Slots |-> NoOutcome]
    /\ clost = [p \in Slots |-> FALSE]

NextConcurrent ==
    \E p \in Slots :
        \/ CcCsvCreateModelFile(p) \/ CcCsvCreateComponentFile(p)
        \/ CcCsvCreateRelationshipFile(p) \/ CcCsvMkdirTemp(p) \/ CcCsvGenerate(p)
        \/ CcUrlCreateVersionedDirectory(p) \/ CcUrlWriteModelDefinition(p)
        \/ CcUrlGenerateComponents(p)
        \/ CcCreateTempFile(p)
        \/ CcRegister(p) \/ CcReturn(p)
        \/ CeMkdirAll(p) \/ CeWriteModel(p) \/ CeWriteComponents(p)
        \/ CeBuild(p) \/ CeSave(p) \/ CeRead(p) \/ CeReturn(p)

SpecConcurrent == InitConcurrent /\ [][NextConcurrent]_vars


(***************************************************************************)
(* RegisterEntity(content, entityType, h)                                  *)
(***************************************************************************)

EntityTypes == {"component", "relationship", "model", "category"}

\* What h.registryManager.RegisterEntity can return.
RegistryAnswers == [err : BOOLEAN, isModelError : BOOLEAN, isRegistrantError : BOOLEAN]

EntityRequests ==
    [entityType : EntityTypes, contentOk : BOOLEAN, registry : RegistryAnswers]

\* switch entityType: a component or a relationship is unmarshalled (on error
\* return meshkitutils.ErrUnmarshal(err)); any other type falls out of the
\* switch to return meshkitutils.ErrInvalidSchemaVersion
ReUnmarshal ==
    /\ epc = "idle"
    /\ IF ereq.entityType \notin {"component", "relationship"}
       THEN epc' = "done" /\ eret' = "ErrInvalidSchemaVersion"
       ELSE IF ~ereq.contentOk
            THEN epc' = "done" /\ eret' = "ErrUnmarshal"
            ELSE epc' = "register" /\ eret' = eret
    /\ UNCHANGED <<ereq, ecalls, otherThanRegisterEntity>>

\* isRegistrantError, isModelError, err := h.registryManager.RegisterEntity(...)
ReRegisterEntity ==
    /\ epc = "register"
    /\ ecalls' = Append(ecalls, [entityType |-> ereq.entityType, answer |-> ereq.registry])
    /\ epc' = "handle"
    /\ UNCHANGED <<ereq, eret, otherThanRegisterEntity>>

\* Faulty variant: the registry's error is returned to the caller.
ReHandleErrorReturnsErr ==
    /\ epc = "handle"
    /\ eret' = IF ereq.registry.err THEN "ErrRegisterEntity" ELSE "nil"
    /\ epc' = "done"
    /\ UNCHANGED <<ereq, ecalls, otherThanRegisterEntity>>

\* helpers.HandleError(..., err, isModelError, isRegistrantError); return nil
ReHandleError ==
    /\ epc = "handle"
    /\ eret' = "nil"
    /\ epc' = "done"
    /\ UNCHANGED <<ereq, ecalls, otherThanRegisterEntity>>

InitRegisterEntity ==
    /\ req = CHOOSE r \in ImportRequests : ~r.bodyOk
    /\ InitImportIdle
    /\ InitExportIdle
    /\ InitHandlersIdle
    /\ InitConcurrentIdle
    /\ InitListingIdle
    /\ ereq \in EntityRequests
    /\ epc = "idle"
    /\ ecalls = <<>>
    /\ eret = "none"

NextRegisterEntity == ReUnmarshal \/ ReRegisterEntity \/ ReHandleError

SpecRegisterEntity == InitRegisterEntity /\ [][NextRegisterEntity]_vars

(***************************************************************************)
(* Listing handlers: GetMeshmodelModels*, GetMeshmodelCategories*,         *)
(* GetMeshmodelComponent*, GetMeshmodelRegistrants                         *)
(***************************************************************************)

ListingRequests ==
    [handler : {"models", "categories", "components", "registrants"},
     page : {1, 2}, limit : 0..MaxLimit]

\* What the registry hands back: entities of any type, some of them twice.
EntityItems == [type : {"model", "component", "category"}, name : {1, 2}]
HostItems == [type : {"host"}, name : {1, 2}]
SeqsUpTo(S, n) == UNION {[1..k -> S] : k \in 0..n}

\* The type assertion of the models loop and of prettifyCompDefSchema.
RECURSIVE OfType(_, _)
OfType(items, type) ==
    IF items = <<>> THEN <<>>
    ELSE (IF Head(items).type = type THEN <<Head(items)>> ELSE <<>>)
         \o OfType(Tail(items), type)

\* models.FindDuplicateModels / models.FindDuplicateComponents: entities of
\* the same name are merged into one.
RECURSIVE FindDuplicates(_)
FindDuplicates(items) ==
    IF items = <<>> THEN <<>>
    ELSE LET rest == FindDuplicates(Tail(items))
         IN IF \E i \in 1..Len(rest) : rest[i].name = Head(items).name
            THEN rest ELSE <<Head(items)>> \o rest

\* Faulty variant: the page size is the limit even for pagesize=all.
pgSizeAlwaysLimit(limit, count) == limit

\* if limit == 0 { pgSize = count } else { pgSize = int64(limit) }
pgSize(limit, count) == IF limit = 0 THEN count ELSE limit

\* entities, count, _, _ := h.registryManager.GetEntities(filter)
LstGetEntities ==
    /\ lpc = "idle" /\ lreq.handler \in {"models", "categories", "components"}
    /\ lentities' \in SeqsUpTo(EntityItems, MaxEntities)
    /\ lcount' \in 0..MaxCount
    /\ lpc' = "filter"
    /\ UNCHANGED <<lreq, litems, lres, otherThanListing>>

\* hosts, count, err := h.registryManager.GetRegistrants(filter); on error
\* http.Error 500 and return
LstGetRegistrants ==
    /\ lpc = "idle" /\ lreq.handler = "registrants"
    /\ \/ /\ lres' = [NoListing EXCEPT !.status = StatusInternalServerError]
          /\ lpc' = "done"
          /\ UNCHANGED <<lentities, lcount, litems>>
       \/ /\ lentities' \in SeqsUpTo(HostItems, MaxEntities)
          /\ lcount' \in 0..MaxCount
          /\ litems' = lentities'
          /\ lpc' = "respond"
          /\ UNCHANGED lres
    /\ UNCHANGED <<lreq, otherThanListing>>

\* models: the loop keeps the *ModelDefinition entities; components:
\* prettifyCompDefSchema keeps the *ComponentDefinition entities; categories
\* are passed on as returned
LstFilter ==
    /\ lpc = "filter"
    /\ litems' = CASE lreq.handler = "models" -> OfType(lentities, "model")
                   [] lreq.handler = "components" -> OfType(lentities, "component")
                   [] OTHER -> lentities
    /\ lpc' = "respond"
    /\ UNCHANGED <<lreq, lentities, lcount, lres, otherThanListing>>

\* res := ...APIResponse{Page: page, PageSize: int(pgSize), Count: count, ...};
\* enc.Encode(res), on error http.Error 500
LstRespond ==
    /\ lpc = "respond"
    /\ \/ lres' = [status |-> StatusOK,
                   page |-> lreq.page,
                   pageSize |-> pgSize(lreq.limit, lcount),
                   count |-> lcount,
                   items |-> IF lreq.handler \in {"models", "components"}
                             THEN FindDuplicates(litems) ELSE litems]
       \/ lres' = [NoListing EXCEPT !.status = StatusInternalServerError]
    /\ lpc' = "done"
    /\ UNCHANGED <<lreq, lentities, lcount, litems, otherThanListing>>

InitListing ==
    /\ req = CHOOSE r \in ImportRequests : ~r.bodyOk
    /\ InitImportIdle
    /\ InitExportIdle
    /\ InitHandlersIdle
    /\ InitConcurrentIdle
    /\ InitRegisterEntityIdle
    /\ lreq \in ListingRequests
    /\ lpc = "idle"
    /\ lentities = <<>>
    /\ lcount = 0
    /\ litems = <<>>
    /\ lres = NoListing

NextListing == LstGetEntities \/ LstGetRegistrants \/ LstFilter \/ LstRespond

SpecListing == InitListing /\ [][NextListing]_vars

(***************************************************************************)
(* Properties                                                              *)
(***************************************************************************)

SuccessReports == {i \in 1..Len(responses) : responses[i].kind = "success"}
FailedCalls == {i \in 1..Len(registerCalls) : ~registerCalls[i].ok}
Contains(s, x) == \E i \in 1..Len(s) : s[i] = x

C2_NoTemporaryLeftAfterReturn ==
    pc = "done" => tmp = {}

\* C3: a request with Register=false never calls registrationHelper.Register.
C3_NoRegisterWithoutFlag ==
    ~req.register => registerCalls = <<>>

\* A Register=false upload whose adapter produced a Dir and whose handler returned.
C3_Witness ==
    /\ pc = "done"
    /\ ~req.register
    /\ req.uploadType = "file"
    /\ "tempFile" \in created
    /\ SuccessReports # {}

\* C4: when the report of a csv import is sent, Register has been attempted
\* for every discovered model directory, in order, whatever the earlier
\* outcomes were.
C4_EveryDirAttemptedBeforeReport ==
    (req.uploadType = "csv" /\ (pc \in {"csv_copy", "tail", "aggregating"} \/ SuccessReports # {}))
        => /\ Len(registerCalls) = Len(modelDirPaths)
           /\ \A i \in 1..Len(registerCalls) : registerCalls[i].dir = modelDirPaths[i]

\* A report sent after the first of several Dirs failed to register.
C4_Witness ==
    /\ req.uploadType = "csv"
    /\ SuccessReports # {}
    /\ Len(modelDirPaths) >= 2
    /\ Len(registerCalls) = Len(modelDirPaths)
    /\ ~registerCalls[1].ok

\* C5: after ExportModel has returned, nothing it created under the temporary
\* model root remains, on every exit path after directory creation began.
C5_TemporaryRootRemoved ==
    xpc = "done" => xfs = {}

\* C6: when the csv request fails with a file-type error, no temporary file
\* has been created by the request.
C6_FileTypeErrorBeforeAnyTempFile ==
    (\E i \in 1..Len(responses) : responses[i].cause = "ErrFileType") => created = {}

\* C7: once an adapter step has reported an unrecoverable error, the handler
\* runs no further adapter step, registers nothing and sends no success report.
C7_NothingAfterAdapterError ==
    afterErr \cap {"adapterStep", "register", "aggregate", "successReport"} = {}

\* C8: a registry query that matches nothing ends in a 404 whose message names
\* every supplied id, name and version, with nothing written to the filesystem;
\* a registry query that fails ends in a 500.
C8_NotFoundDistinctFromFailure ==
    xpc = "done" =>
        /\ xquery = "empty" =>
             /\ xresp.status = "404"
             /\ xreq.id # "" => Contains(xresp.message, xreq.id)
             /\ xreq.name # "" => Contains(xresp.message, xreq.name)
             /\ xreq.version # "" => Contains(xresp.message, xreq.version)
             /\ xmade = {}
        /\ xquery = "error" => xresp.status = "500"

\* An export by id that matched nothing.
C8_Witness ==
    xpc = "done" /\ xquery = "empty" /\ xreq.id # "" /\ xresp.status = "404"

\* C9: a successful export with file_type omitted or "oci" is served as
\* application/x-tar under {model}.tar, with any other file_type as
\* application/gzip under {model}.tar.gz.
C9_PackagingHeaders ==
    xresp.status = "200" =>
        IF xreq.file_type \in {"", "oci"}
        THEN /\ xresp.contentType = "application/x-tar"
             /\ xresp.filename = [base |-> xmodel.name, ext |-> ".tar"]
        ELSE /\ xresp.contentType = "application/gzip"
             /\ xresp.filename = [base |-> xmodel.name, ext |-> ".tar.gz"]

\* A delivered export whose request omitted file_type.
C9_Witness ==
    xresp.status = "200" /\ xresp.delivered /\ xreq.file_type = "" /\ xresp.body # {}

\* The files (not the directories) of a packaged tree.
FilesOf(tree) == {f \in tree : f.kind # "dir"}

\* C10: the artifact of a successful json export of a model with 2 components
\* and 1 relationship holds exactly model.json, 2 component files and
\* 1 relationship file, each carrying its entity with the stripped model header.
C10_ExportRoundTrip ==
    (xresp.status = "200" /\ xresp.delivered /\ outputFormat(xreq) = "json"
        /\ Len(xcomps) = 2 /\ Len(xrels) = 1)
    => FilesOf(xart) =
          {Entry("versionDir", "model", 0, "json", "model", xmodel)}
          \cup {Entry("components", "component", xcomps[i], "json", "component", xmodel) :
                   i \in 1..2}
          \cup {Entry("relationships", "relationship", xrels[1], "json", "relationship", xmodel)}

\* C11: a csv import whose sheet generation succeeded has copied the scratch
\* root into the registry-local cache by the time it returns, whether Register
\* is true or false (the copy itself not having failed).
C11_CacheCopyIndependentOfRegister ==
    (req.uploadType = "csv" /\ pc = "done" /\ Contains(events, "import")
        /\ ~\E i \in 1..Len(responses) : responses[i].cause = "ErrCopyDirectory")
    => cacheCopied

ErrorResponses == {i \in 1..Len(responses) : responses[i].kind = "error"}
ErrorEvents == {i \in 1..Len(events) : events[i] = "error"}

\* C15: every error response of RegisterMeshmodels comes with an audit error
\* event: when the handler has returned, it has sent as many error events as
\* error responses.
C15_ErrorEventOnEveryErrorPath ==
    pc = "done" => Cardinality(ErrorEvents) = Cardinality(ErrorResponses)

\* The temp file of the urlImport adapter was created, or its creation tried.
TempFileCreationReached ==
    \/ pc = "urlimport_create_temp"
    \/ "tempFile" \in created
    \/ \E i \in 1..Len(responses) : responses[i].cause = "ErrCreateFile"

\* C16 (as amended): once the download step of a urlImport request is over, a
\* 200 answer with a readable body has proceeded to the creation of the temp
\* file, and any other answer has ended the request with the download error,
\* no temp file created and nothing registered.
C16_OnlyStatusOKProceeds ==
    (req.uploadType = "urlImport" /\ pc \notin {"idle", "urlimport_download"}) =>
        IF req.download = "200"
        THEN TempFileCreationReached
        ELSE /\ pc = "done"
             /\ created = {}
             /\ registerCalls = <<>>
             /\ responses = <<ErrorResponse("handleError", "ErrDownload")>>

\* A 2xx answer other than 200 that ended the request without a temp file.
C16_Witness ==
    /\ req.uploadType = "urlImport"
    /\ req.download = "204"
    /\ pc = "done"
    /\ created = {}

\* C16 (as claimed): the request proceeds to file creation exactly when the
\* answer is a 2xx status with a readable body.
C16_Any2xxProceeds ==
    (req.uploadType = "urlImport" /\ pc = "done") =>
        (req.download \in {"200", "204"} <=> TempFileCreationReached)

\* A name without upper-case letters.
IsLowerCase(name) == \A i \in 1..Len(name) : name[i] \notin 65..90
\* a is b with every upper-case letter replaced by its lower-case letter.
LowerCaseOf(a, b) ==
    /\ Len(a) = Len(b)
    /\ \A i \in 1..Len(a) : a[i] = b[i] \/ (b[i] \in 65..90 /\ a[i] = b[i] + 32)

\* C17: every step of the url adapter that takes the model name (generation,
\* versioned path, model definition file, model definition identity) is given
\* the lower-cased name, never the casing supplied.
C17_UrlAdapterUsesLowerCasedName ==
    \A f \in DOMAIN urlUsed :
        urlUsed[f] # <<>> => IsLowerCase(urlUsed[f]) /\ LowerCaseOf(urlUsed[f], req.model)

\* A mixed-case name that went through all the steps.
C17_Witness ==
    /\ req.uploadType = "url"
    /\ ~IsLowerCase(req.model)
    /\ \E i \in 1..Len(req.model) : req.model[i] \notin 65..90
    /\ \A f \in DOMAIN urlUsed : urlUsed[f] # <<>>

\* The entity files the export wrote.
EntityFiles == {f \in xmade : f.kind \in {"model", "component", "relationship"}}

InCriticalSection == {w \in DOMAIN wpc : wpc[w] \in {"read", "write", "unlock"}}

C14_MalformedBodyIsClientError ==
    (hpc = "done" /\ ~hreq.bodyOk) =>
        /\ Len(hresp) = 1
        /\ hresp[1] \in 400..499
        /\ hcalls = <<>>

\* C19: while the publish goroutine is merely dispatched the handler can
\* always take its next step (it never waits for the publish), and the step
\* by which the publish completes leaves the handler's position and what it
\* wrote to the ResponseWriter as they were.
C19_PublishIsFireAndForget ==
    /\ []((pub = "dispatched" /\ hpc # "done") => ENABLED HandlerStep)
    /\ [][pub' # pub /\ pub # "none" => hresp' = hresp /\ hpc' = hpc]_vars

\* The handler has returned and answered while the publish is still pending.
C19_Witness ==
    /\ hpc = "done"
    /\ pub = "dispatched"
    /\ Len(hresp) = 1

ImportSlots == {p \in Slots : creq[p].handler = "import"}
ExportSlots == {p \in Slots : creq[p].handler = "export"}

\* C12: two import requests in flight never use the same temporary path, and
\* what a request registers was written by that request alone.
C12_ImportsShareNoTemporaryPath ==
    \A p, q \in ImportSlots :
        p # q => /\ cuse[p] \cap cuse[q] = {}
                 /\ \A e \in cgot[p] : e.by = p
                 /\ ~clost[p]

\* C13: an export packages only files it wrote itself, reads back the archive
\* it saved itself, and no other export's cleanup removes its root while it
\* still has files to package or read back.
C13_ExportsUseFreshRoot ==
    \A p \in ExportSlots :
        /\ \A e \in cgot[p] : e.by = p
        /\ cout[p].status = "ok" => cout[p].tarBy = p
        /\ ~clost[p]

\* C22: the registration report is the last thing written to the caller, it
\* is a success answer carrying the aggregator's counts, it has an error
\* message exactly when its error count is above zero, and a request whose
\* aggregation has started ends with the report, whatever failed to register.
C22_PartialSuccessReported ==
    /\ \A i \in SuccessReports :
         /\ i = Len(responses)
         /\ responses[i].status = "200"
         /\ responses[i].total = response.total
         /\ responses[i].err = response.err
         /\ responses[i].errMsg <=> responses[i].err > 0
    /\ (pc = "done" /\ \E w \in DOMAIN wpc : wpc[w] # "idle") => SuccessReports # {}

\* A report of a request some of whose registrations failed and some did not.
C22_Witness ==
    /\ pc = "done"
    /\ \E i \in SuccessReports :
         /\ responses[i].errMsg
         /\ responses[i].err >= 1
         /\ responses[i].err < responses[i].total

\* C25: a RegisterMeshmodels request that has returned has written exactly
\* one answer, an error response or a registration report.
C25_ExactlyOneOutcome ==
    pc = "done" => Len(responses) = 1

\* C26: the temp file of the file and urlImport adapters is on the filesystem
\* from its creation until the handler returns (so during Register and until
\* the report is written), and once the handler has returned its handle is
\* closed, whatever the Register flag.
C26_TempFileLifetimeAndHandle ==
    "tempFile" \in created =>
        /\ pc # "done" => "tempFile" \in tmp
        /\ pc = "done" => "tempFile" \notin tmp /\ "tempFile" \notin open

\* C27: a request whose UploadType is none of csv, url, file, urlImport ends
\* with no temporary file, no Register call and an error response, not a
\* registration report.
C27_UnknownUploadTypeRejected ==
    (req.bodyOk /\ req.uploadType = "other" /\ pc = "done") =>
        /\ created = {}
        /\ registerCalls = <<>>
        /\ SuccessReports = {}
        /\ ErrorResponses # {}

\* C21: every model, component and relationship file the export writes
\* carries the model header with Components and Relationships cleared.
C21_WrittenFilesCarryStrippedModel ==
    \A f \in EntityFiles : f.model.components = Nil /\ f.model.relationships = Nil

\* An export of a model with components and relationships that wrote the model
\* file, a component file and a relationship file.
C21_Witness ==
    /\ xcomps # <<>>
    /\ xrels # <<>>
    /\ \A k \in {"model", "component", "relationship"} : \E f \in xmade : f.kind = k

\* C28: an export answered with 200 packaged the model file and a file for
\* every component and every relationship of the model.
C28_NoArtifactWithMissingEntity ==
    xresp.status = "200" =>
        /\ \E f \in FilesOf(xart) : f.kind = "model"
        /\ \A i \in 1..Len(xcomps) :
             \E f \in FilesOf(xart) : f.kind = "component" /\ f.n = xcomps[i]
        /\ \A i \in 1..Len(xrels) :
             \E f \in FilesOf(xart) : f.kind = "relationship" /\ f.n = xrels[i]

C29_RegistryErrorDeterminesResponse ==
    (hreq.handler = "RegisterMeshmodelComponents" /\ hpc = "done") =>
        /\ (Contains(hcalls, "RegisterEntity") /\ ~hreq.registryOk) =>
              Len(hresp) = 1 /\ hresp[1] >= StatusBadRequest
        /\ pub # "none" =>
              ~(Contains(hcalls, "RegisterEntity") /\ ~hreq.registryOk)

\* C30: when RegisterEntity has returned: for a component or relationship
\* whose content does not unmarshal it returned the unmarshal error and called
\* the registry zero times; for one whose content unmarshals it called the
\* registry exactly once and returned nil whatever the registry answered; for
\* any other entity type it called the registry zero times and returned the
\* invalid-schema-version error.
C30_RegisterEntityContract ==
    epc = "done" =>
        IF ereq.entityType \in {"component", "relationship"}
        THEN IF ereq.contentOk
             THEN Len(ecalls) = 1 /\ eret = "nil"
             ELSE ecalls = <<>> /\ eret = "ErrUnmarshal"
        ELSE ecalls = <<>> /\ eret = "ErrInvalidSchemaVersion"

\* A relationship that unmarshalled, was refused by the registry, and for
\* which nil was returned.
C30_Witness ==
    /\ epc = "done"
    /\ ereq.entityType = "relationship"
    /\ Len(ecalls) = 1
    /\ ecalls[1].answer.err
    /\ eret = "nil"

\* C23: a listing that was returned carries the requested page, as pageSize
\* the requested limit when that is not zero and the registry's count when it
\* is, and as count the registry's count, however many of the returned
\* entities were dropped by the type filter or merged as duplicates.
C23_ListingPagination ==
    lres.status = StatusOK =>
        /\ lres.page = lreq.page
        /\ lreq.limit # 0 => lres.pageSize = lreq.limit
        /\ lreq.limit = 0 => lres.pageSize = lcount
        /\ lres.count = lcount

\* A pagesize=all listing of models in which the type filter dropped an
\* entity the registry returned, with a non-zero count.
C23_Witness ==
    /\ lres.status = StatusOK
    /\ lreq.handler = "models"
    /\ lreq.limit = 0
    /\ lcount > 0
    /\ Len(litems) < Len(lentities)
    /\ Len(lres.items) < lcount

====
